---------------------------- MODULE Spec2Model ----------------------------
(***************************************************************************)
(* Narration core of the document reader: the useSpeechSynthesis hook      *)
(* (voice catalog, play / pause / stop), the App component's word cursor   *)
(* (handleBoundary, handleEnd, handleFileProcessed) and the browser's      *)
(* speechSynthesis device the hook drives.                                 *)
(*                                                                         *)
(* A text is a sequence of characters over Chars.  An utterance is a       *)
(* record held in the device's queue; the events the device has dispatched *)
(* and the page has not yet handled wait in the FIFO `tasks'.              *)
(***************************************************************************)
EXTENDS Integers, Sequences, FiniteSets, TLC

\* ------------------------------------------------------------- bounds
MaxLen == 1        \* longest document text, in characters
MaxVoices == 2     \* longest voice list the device enumerates
MaxHandles == 2    \* utterance objects alive at once
MaxTasks == 1      \* events the device dispatches ahead of their handling
MaxBoundaryLen == 3  \* longest text the word-index computation is run on

\* -------------------------------------------------------------- texts
Chars == {"a", " "}

IsSpace(ch) == ch \in {" ", "\n"}

Texts == UNION {[1..n -> Chars] : n \in 0..MaxLen}

Substring(s, c) == SubSeq(s, 1, c)

\* String.prototype.split(/\s+/): the pieces between maximal whitespace
\* runs; the empty string gives one empty piece.
RECURSIVE SplitFrom(_, _, _, _)
SplitFrom(s, i, toks, inSpace) ==
    IF i > Len(s) THEN toks
    ELSE IF IsSpace(s[i])
         THEN SplitFrom(s, i + 1,
                        IF inSpace THEN toks ELSE Append(toks, <<>>), TRUE)
         ELSE SplitFrom(s, i + 1,
                        [toks EXCEPT ![Len(toks)] = Append(@, s[i])], FALSE)

SplitWS(s) == SplitFrom(s, 1, << <<>> >>, FALSE)

\* ------------------------------------------------------------- voices
\* A name and a language tag are sequences of tokens: includes() and
\* startsWith() look at the tokens.
RawVoices ==
    { [name |-> <<"Google", "English">>, lang |-> <<"en", "US">>, uri |-> 1],
      [name |-> <<"Helena">>,            lang |-> <<"es", "ES">>, uri |-> 2],
      [name |-> <<"Anna">>,              lang |-> <<"de", "DE">>, uri |-> 3] }

NoVoice == [name |-> <<>>, lang |-> <<>>, uri |-> 0]

Injective(s) == \A i, j \in 1..Len(s) : s[i] = s[j] => i = j

VoiceLists ==
    {s \in UNION {[1..n -> RawVoices] : n \in 0..MaxVoices} : Injective(s)}

Range(s) == {s[i] : i \in 1..Len(s)}

LangStartsWith(v, prefix) == Len(v.lang) > 0 /\ v.lang[1] = prefix

NameIncludes(v, word) == \E i \in 1..Len(v.name) : v.name[i] = word

Supported(v) ==
    LangStartsWith(v, "en") \/ LangStartsWith(v, "es") \/ LangStartsWith(v, "pt")

RECURSIVE FilterVoices(_)
FilterVoices(s) ==
    IF s = <<>> THEN <<>>
    ELSE IF Supported(Head(s)) THEN <<Head(s)>> \o FilterVoices(Tail(s))
         ELSE FilterVoices(Tail(s))

Preferred(v) == NameIncludes(v, "Google") /\ LangStartsWith(v, "en")

\* The default taken from the end of the list: the last preferred voice.
DefaultVoiceLastPreferred(avail) ==
    IF \E i \in 1..Len(avail) : Preferred(avail[i])
    THEN avail[CHOOSE i \in 1..Len(avail) :
                   /\ Preferred(avail[i])
                   /\ \A j \in (i + 1)..Len(avail) : ~Preferred(avail[j])]
    ELSE avail[1]

DefaultVoice(avail) ==
    IF \E i \in 1..Len(avail) : Preferred(avail[i])
    THEN avail[CHOOSE i \in 1..Len(avail) :
                   /\ Preferred(avail[i])
                   /\ \A j \in 1..(i - 1) : ~Preferred(avail[j])]
    ELSE avail[1]

\* -------------------------------------------------------------- state
VARIABLES
    voices,            \* useState: the catalog
    selectedVoice,     \* useState: NoVoice is null
    isSpeaking,        \* useState
    isPaused,          \* useState
    utteranceRef,      \* useRef: 0 is null, else the utterance's handle
    extractedText,     \* useState of App
    currentWordIndex,  \* useState of App
    backendVoices,     \* speechSynthesis.getVoices()
    synthQueue,        \* the device's utterances, the head is being spoken
    synthPaused,       \* the device's paused flag
    tasks,             \* events dispatched by the device, not yet handled
    userChoice,        \* the voice the user last chose (NoVoice: none yet)
    mounted,           \* the App component is mounted
    listening,         \* the 'voiceschanged' listener is registered
    isProcessing,      \* useState of App: a file is being decoded
    error,             \* useState of App: NoError is null
    lastOp,            \* the handler that ran last
    lastReq            \* the requests it made to the device

vars == <<voices, selectedVoice, isSpeaking, isPaused, utteranceRef,
          extractedText, currentWordIndex, backendVoices, synthQueue,
          synthPaused, tasks, userChoice, mounted, listening, isProcessing,
          error, lastOp, lastReq>>

catalogVars == <<voices, selectedVoice, backendVoices, userChoice>>

hostVars == <<mounted, listening>>

fileVars == <<isProcessing, error>>

NoError == "none"

Null == 0

Handles == 1..MaxHandles

playState ==
    IF isSpeaking THEN "Speaking" ELSE IF isPaused THEN "Paused" ELSE "Idle"

words == SplitWS(extractedText)

\* ------------------------------------------------- the speech device
Event(h, type, charIndex, text) ==
    [h |-> h, type |-> type, charIndex |-> charIndex, text |-> text]

TerminalKinds == {"end", "error"}

InUse ==
    {utteranceRef} \cup {synthQueue[i].h : i \in 1..Len(synthQueue)}
                   \cup {tasks[i].h : i \in 1..Len(tasks)}

HasFreeHandle == Handles \ InUse # {}

FreshHandle ==
    CHOOSE h \in Handles \ InUse : \A g \in Handles \ InUse : h <= g

\* speechSynthesis.cancel(): the queue is emptied and every utterance
\* removed from it is sent a terminal event (an end or an error event,
\* by the browser).
CancelEvents(kind) ==
    [i \in 1..Len(synthQueue) |-> Event(synthQueue[i].h, kind, 0, <<>>)]

\* The utterance being spoken reaches a word boundary further on in its
\* text: its onboundary handler is queued with the character offset.
SynthBoundary ==
    /\ synthQueue # <<>>
    /\ ~synthPaused
    /\ Len(tasks) < MaxTasks
    /\ \E c \in (Head(synthQueue).pos + 1)..Len(Head(synthQueue).text) :
          /\ tasks' = Append(tasks, Event(Head(synthQueue).h, "boundary", c,
                                          Head(synthQueue).text))
          /\ synthQueue' = [synthQueue EXCEPT ![1].pos = c]
    /\ UNCHANGED <<voices, selectedVoice, isSpeaking, isPaused, utteranceRef,
                   extractedText, currentWordIndex, backendVoices,
                   synthPaused, userChoice, hostVars, fileVars, lastOp,
                   lastReq>>

\* The utterance being spoken finishes, or fails: it leaves the queue and
\* its onend or onerror handler is queued.
SynthFinish ==
    /\ synthQueue # <<>>
    /\ ~synthPaused
    /\ Len(tasks) < MaxTasks
    /\ \E kind \in TerminalKinds :
          tasks' = Append(tasks, Event(Head(synthQueue).h, kind, 0, <<>>))
    /\ synthQueue' = Tail(synthQueue)
    /\ UNCHANGED <<voices, selectedVoice, isSpeaking, isPaused, utteranceRef,
                   extractedText, currentWordIndex, backendVoices,
                   synthPaused, userChoice, hostVars, fileVars, lastOp,
                   lastReq>>

\* ------------------------------------------------------ voice catalog
\* handleVoicesChanged.  The effect that defines it runs once, so the
\* selectedVoice it reads is the one of the first render: null.
SelectedVoiceSeenByEffect == NoVoice

HandleVoicesChanged(list) ==
    LET availableVoices == FilterVoices(list)
        setDefault == Len(availableVoices) > 0
                      /\ SelectedVoiceSeenByEffect = NoVoice
    IN  /\ voices' = availableVoices
        /\ selectedVoice' = IF setDefault THEN DefaultVoice(availableVoices)
                            ELSE selectedVoice

\* The device's 'voiceschanged' signal, its list being one of `lists' now
\* (changed or not): the listener, while registered, reads that list.
VoicesChangedFrom(lists) ==
    /\ \E list \in lists :
          /\ backendVoices' = list
          /\ IF listening
             THEN HandleVoicesChanged(list)
             ELSE UNCHANGED <<voices, selectedVoice>>
    /\ lastOp' = IF listening THEN "voiceschanged" ELSE lastOp
    /\ lastReq' = IF listening THEN <<>> ELSE lastReq
    /\ UNCHANGED <<userChoice, isSpeaking, isPaused, utteranceRef, extractedText,
                   currentWordIndex, synthQueue, synthPaused, tasks, hostVars,
                   fileVars>>

VoicesChanged == VoicesChangedFrom(VoiceLists)

\* A device with more voices: two preferred ones, one with the marker in
\* another language, one in the primary language without the marker.
CatalogVoices ==
    RawVoices \cup
    { [name |-> <<"Google", "UK", "English">>, lang |-> <<"en", "GB">>, uri |-> 4],
      [name |-> <<"Google", "espanol">>,       lang |-> <<"es", "ES">>, uri |-> 5],
      [name |-> <<"Samantha">>,                lang |-> <<"en", "US">>, uri |-> 6] }

CatalogLists ==
    {s \in UNION {[1..n -> CatalogVoices] : n \in 0..MaxVoices} : Injective(s)}

VoicesChangedCatalog == VoicesChangedFrom(CatalogLists)

\* Controls.handleVoiceSelect -> setSelectedVoice: a voice of the catalog.
Select ==
    /\ mounted
    /\ \E v \in Range(voices) :
          /\ selectedVoice' = v
          /\ userChoice' = v
    /\ lastOp' = "select"
    /\ lastReq' = <<>>
    /\ UNCHANGED <<voices, isSpeaking, isPaused, utteranceRef, extractedText,
                   currentWordIndex, backendVoices, synthQueue, synthPaused,
                   tasks, hostVars, fileVars>>

\* ------------------------------------------------ play / pause / stop
\* The first test of play reading the wrong flag.
CanResumeOnSpeaking == isSpeaking /\ utteranceRef # Null

\* play, first test: paused, with an utterance to resume.
CanResume == isPaused /\ utteranceRef # Null

\* The second test asking, too, that the device still lists the voice.
CanStartIfResolvable ==
    /\ extractedText # <<>>
    /\ selectedVoice # NoVoice
    /\ \E i \in 1..Len(backendVoices) : backendVoices[i].uri = selectedVoice.uri

\* play, second test: a text to speak and a selected voice.
CanStart == extractedText # <<>> /\ selectedVoice # NoVoice

\* play, first branch: resume the paused utterance.
PlayResume ==
    /\ CanResume
    /\ synthPaused' = FALSE
    /\ isPaused' = FALSE
    /\ isSpeaking' = TRUE
    /\ lastReq' = <<"resume">>
    /\ UNCHANGED <<utteranceRef, synthQueue, tasks>>

\* The voice bound to a new utterance: the device's voice with the selected
\* voice's URI, else none (the device speaks with its default voice).
VoiceObject ==
    IF \E i \in 1..Len(backendVoices) : backendVoices[i].uri = selectedVoice.uri
    THEN selectedVoice.uri
    ELSE 0

Utterance(h) ==
    [h |-> h, text |-> extractedText, voice |-> VoiceObject, pos |-> -1]

\* The new-utterance branch without its cancel().
StartUtteranceNoCancel ==
    /\ synthQueue' = Append(synthQueue, Utterance(FreshHandle))
    /\ utteranceRef' = FreshHandle
    /\ isSpeaking' = TRUE
    /\ isPaused' = FALSE
    /\ lastReq' = <<"speak">>
    /\ UNCHANGED <<synthPaused, tasks>>

\* Cancel, build the utterance with its callbacks, speak it.
StartUtterance ==
    /\ \E kind \in TerminalKinds :
          tasks' = tasks \o CancelEvents(kind)
    /\ synthQueue' = << Utterance(FreshHandle) >>
    /\ utteranceRef' = FreshHandle
    /\ isSpeaking' = TRUE
    /\ isPaused' = FALSE
    /\ lastReq' = <<"cancel", "speak">>
    /\ UNCHANGED synthPaused

\* play, second branch.  (HasFreeHandle keeps the model finite.)
PlayNew ==
    /\ ~CanResume
    /\ CanStart
    /\ HasFreeHandle
    /\ StartUtterance

\* play, neither branch: nothing is done.
PlayNothing ==
    /\ ~CanResume
    /\ ~CanStart
    /\ lastReq' = <<>>
    /\ UNCHANGED <<isSpeaking, isPaused, utteranceRef, synthQueue,
                   synthPaused, tasks>>

\* Controls: play={() => play(extractedText)}
Play ==
    /\ mounted
    /\ \/ PlayResume
       \/ PlayNew
       \/ PlayNothing
    /\ lastOp' = "play"
    /\ UNCHANGED <<catalogVars, extractedText, currentWordIndex, hostVars,
                   fileVars>>

\* pause without its test of the flags.
PauseUnguarded ==
    /\ mounted
    /\ synthPaused' = TRUE
    /\ isPaused' = TRUE
    /\ isSpeaking' = FALSE
    /\ lastReq' = <<"pause">>
    /\ lastOp' = "pause"
    /\ UNCHANGED <<catalogVars, utteranceRef, extractedText, currentWordIndex,
                   synthQueue, tasks, hostVars, fileVars>>

\* pause keeping the speaking flag.
PauseKeepsSpeaking ==
    /\ mounted
    /\ IF isSpeaking /\ ~isPaused
       THEN /\ synthPaused' = TRUE
            /\ isPaused' = TRUE
            /\ lastReq' = <<"pause">>
            /\ UNCHANGED isSpeaking
       ELSE /\ lastReq' = <<>>
            /\ UNCHANGED <<synthPaused, isPaused, isSpeaking>>
    /\ lastOp' = "pause"
    /\ UNCHANGED <<catalogVars, utteranceRef, extractedText, currentWordIndex,
                   synthQueue, tasks, hostVars, fileVars>>

Pause ==
    /\ mounted
    /\ IF isSpeaking /\ ~isPaused
       THEN /\ synthPaused' = TRUE
            /\ isPaused' = TRUE
            /\ isSpeaking' = FALSE
            /\ lastReq' = <<"pause">>
       ELSE /\ lastReq' = <<>>
            /\ UNCHANGED <<synthPaused, isPaused, isSpeaking>>
    /\ lastOp' = "pause"
    /\ UNCHANGED <<catalogVars, utteranceRef, extractedText, currentWordIndex,
                   synthQueue, tasks, hostVars, fileVars>>

\* handleEnd
HandleEnd == currentWordIndex' = -1

\* stop without its onEnd().
StopBodyNoReset ==
    /\ \E kind \in TerminalKinds :
          tasks' = tasks \o CancelEvents(kind)
    /\ synthQueue' = <<>>
    /\ isSpeaking' = FALSE
    /\ isPaused' = FALSE
    /\ utteranceRef' = Null
    /\ lastReq' = <<"cancel">>
    /\ UNCHANGED <<synthPaused, currentWordIndex>>

\* stop: cancel, clear both flags and the utterance, reset the highlight.
StopBody ==
    /\ \E kind \in TerminalKinds :
          tasks' = tasks \o CancelEvents(kind)
    /\ synthQueue' = <<>>
    /\ isSpeaking' = FALSE
    /\ isPaused' = FALSE
    /\ utteranceRef' = Null
    /\ HandleEnd
    /\ lastReq' = <<"cancel">>
    /\ UNCHANGED synthPaused

Stop ==
    /\ mounted
    /\ StopBody
    /\ lastOp' = "stop"
    /\ UNCHANGED <<catalogVars, extractedText, hostVars, fileVars>>

\* handleFileProcessed: stop, then install the decoded text.
HandleFileProcessed ==
    /\ StopBody
    /\ \E text \in Texts : extractedText' = text
    /\ lastOp' = "load"
    /\ UNCHANGED <<catalogVars, hostVars>>

\* --------------------------------------------------------- file intake
DecodeFailures == {"unsupported", "library", "corrupt"}

\* handleFile with a decoder that succeeds, nothing being handled between
\* its start and the decoder's answer.
LoadFile ==
    /\ mounted
    /\ ~isProcessing
    /\ HandleFileProcessed
    /\ error' = NoError
    /\ UNCHANGED isProcessing

\* handleFile, up to the decoder's await.
HandleFileStart ==
    /\ mounted
    /\ ~isProcessing
    /\ error' = NoError
    /\ isProcessing' = TRUE
    /\ lastOp' = "file"
    /\ lastReq' = <<>>
    /\ UNCHANGED <<catalogVars, isSpeaking, isPaused, utteranceRef,
                   extractedText, currentWordIndex, synthQueue, synthPaused,
                   tasks, hostVars>>

\* The decoder resolves: onFileProcessed(text), then setProcessing(false).
DecodeSucceeds ==
    /\ mounted
    /\ isProcessing
    /\ HandleFileProcessed
    /\ isProcessing' = FALSE
    /\ UNCHANGED error

\* A failed decode that calls onFileProcessed with an empty text.
DecodeFailsClearsText ==
    /\ mounted
    /\ isProcessing
    /\ StopBody
    /\ extractedText' = <<>>
    /\ error' = "corrupt"
    /\ isProcessing' = FALSE
    /\ lastOp' = "decodefail"
    /\ UNCHANGED <<catalogVars, hostVars>>

\* The decoder rejects (the document cannot be read or parsed): the catch
\* sets the message, then setProcessing(false).
DecodeFails ==
    /\ mounted
    /\ isProcessing
    /\ error' = "corrupt"
    /\ isProcessing' = FALSE
    /\ lastOp' = "decodefail"
    /\ lastReq' = <<>>
    /\ UNCHANGED <<catalogVars, isSpeaking, isPaused, utteranceRef,
                   extractedText, currentWordIndex, synthQueue, synthPaused,
                   tasks, hostVars>>

\* handleFile on a file of another type, or with the decoder library
\* missing: the throw is caught before anything else is handled.
HandleFileRejected ==
    /\ mounted
    /\ ~isProcessing
    /\ \E kind \in {"unsupported", "library"} : error' = kind
    /\ lastOp' = "rejected"
    /\ lastReq' = <<>>
    /\ UNCHANGED <<catalogVars, isSpeaking, isPaused, utteranceRef,
                   extractedText, currentWordIndex, synthQueue, synthPaused,
                   tasks, hostVars, isProcessing>>

\* ------------------------------------------------------------ teardown
\* The effect's cleanup without its cancel().
TeardownNoCancel ==
    /\ mounted
    /\ mounted' = FALSE
    /\ listening' = FALSE
    /\ lastOp' = "teardown"
    /\ lastReq' = <<>>
    /\ UNCHANGED <<catalogVars, isSpeaking, isPaused, utteranceRef,
                   extractedText, currentWordIndex, synthQueue, synthPaused,
                   tasks, fileVars>>

\* The effect's cleanup, on unmount: remove the listener, cancel.
Teardown ==
    /\ mounted
    /\ mounted' = FALSE
    /\ listening' = FALSE
    /\ \E kind \in TerminalKinds :
          tasks' = tasks \o CancelEvents(kind)
    /\ synthQueue' = <<>>
    /\ lastOp' = "teardown"
    /\ lastReq' = <<"cancel">>
    /\ UNCHANGED <<catalogVars, isSpeaking, isPaused, utteranceRef,
                   extractedText, currentWordIndex, synthPaused, fileVars>>

\* An event handled after the unmount: the callbacks' state updates are
\* dropped.
DeliverAfterTeardown ==
    /\ ~mounted
    /\ tasks # <<>>
    /\ tasks' = Tail(tasks)
    /\ UNCHANGED <<catalogVars, isSpeaking, isPaused, utteranceRef,
                   extractedText, currentWordIndex, synthQueue, synthPaused,
                   hostVars, fileVars, lastOp, lastReq>>

\* ----------------------------------------- the utterance's callbacks
\* The word index without the final - 1.
WordIndexAtCount(text, charIndex) == Len(SplitWS(Substring(text, charIndex)))

\* handleBoundary, with the text of the render that built the utterance.
WordIndexAt(text, charIndex) == Len(SplitWS(Substring(text, charIndex))) - 1

HandleBoundary(text, charIndex) ==
    currentWordIndex' = WordIndexAt(text, charIndex)

\* utterance.onboundary = onBoundary
DeliverBoundary ==
    /\ mounted
    /\ tasks # <<>>
    /\ Head(tasks).type = "boundary"
    /\ HandleBoundary(Head(tasks).text, Head(tasks).charIndex)
    /\ tasks' = Tail(tasks)
    /\ lastOp' = "boundary"
    /\ lastReq' = <<>>
    /\ UNCHANGED <<catalogVars, isSpeaking, isPaused, utteranceRef,
                   extractedText, synthQueue, synthPaused, hostVars, fileVars>>

\* utterance.onend
OnEnd ==
    /\ isSpeaking' = FALSE
    /\ isPaused' = FALSE
    /\ HandleEnd

DeliverEnd ==
    /\ mounted
    /\ tasks # <<>>
    /\ Head(tasks).type = "end"
    /\ OnEnd
    /\ tasks' = Tail(tasks)
    /\ lastOp' = "end"
    /\ lastReq' = <<>>
    /\ UNCHANGED <<catalogVars, utteranceRef, extractedText, synthQueue,
                   synthPaused, hostVars, fileVars>>

\* utterance.onerror
OnError ==
    /\ isSpeaking' = FALSE
    /\ isPaused' = FALSE
    /\ UNCHANGED currentWordIndex

DeliverError ==
    /\ mounted
    /\ tasks # <<>>
    /\ Head(tasks).type = "error"
    /\ OnError
    /\ tasks' = Tail(tasks)
    /\ lastOp' = "error"
    /\ lastReq' = <<>>
    /\ UNCHANGED <<catalogVars, utteranceRef, extractedText, synthQueue,
                   synthPaused, hostVars, fileVars>>

\* ------------------------------------------------------ specification
\* After the first render and its effect: handleVoicesChanged has run once
\* on the list the device had then.
InitFrom(lists) ==
    /\ backendVoices \in lists
    /\ voices = FilterVoices(backendVoices)
    /\ selectedVoice = IF Len(voices) > 0 THEN DefaultVoice(voices) ELSE NoVoice
    /\ userChoice = NoVoice
    /\ isSpeaking = FALSE
    /\ isPaused = FALSE
    /\ utteranceRef = Null
    /\ extractedText = <<>>
    /\ currentWordIndex = -1
    /\ synthQueue = <<>>
    /\ synthPaused = FALSE
    /\ tasks = <<>>
    /\ mounted = TRUE
    /\ listening = TRUE
    /\ isProcessing = FALSE
    /\ error = NoError
    /\ lastOp = "init"
    /\ lastReq = <<>>

Init == InitFrom(VoiceLists)

Next ==
    \/ VoicesChanged
    \/ Select
    \/ Play
    \/ Pause
    \/ Stop
    \/ LoadFile
    \/ SynthBoundary
    \/ SynthFinish
    \/ DeliverBoundary
    \/ DeliverEnd
    \/ DeliverError
    \/ Teardown
    \/ DeliverAfterTeardown

Spec == Init /\ [][Next]_vars

\* The narration controller under a catalog that stays as the first refresh
\* left it: the device enumerated one supported voice at startup.
StartupVoices ==
    << CHOOSE v \in RawVoices : Preferred(v) >>

InitNarration == Init /\ backendVoices = StartupVoices

NextNarration ==
    \/ Play
    \/ Pause
    \/ Stop
    \/ LoadFile
    \/ SynthBoundary
    \/ SynthFinish
    \/ DeliverBoundary
    \/ DeliverEnd
    \/ DeliverError

SpecNarration == InitNarration /\ [][NextNarration]_vars

\* The narration controller with the file intake in its two steps: a decode
\* lasts while the page goes on handling the controls and the events, and
\* it succeeds or fails.
NextFiles ==
    \/ Play
    \/ Pause
    \/ Stop
    \/ HandleFileStart
    \/ DecodeSucceeds
    \/ DecodeFails
    \/ HandleFileRejected
    \/ SynthBoundary
    \/ SynthFinish
    \/ DeliverBoundary
    \/ DeliverEnd
    \/ DeliverError

SpecFiles == InitNarration /\ [][NextFiles]_vars

\* The controller under a device whose voice list changes: the catalog, the
\* controls, the terminal events of the utterances, the unmount.
NextVoices ==
    \/ VoicesChanged
    \/ Play
    \/ Stop
    \/ LoadFile
    \/ DeliverEnd
    \/ DeliverError
    \/ Teardown
    \/ DeliverAfterTeardown

SpecVoices == Init /\ [][NextVoices]_vars

\* The catalog on its own, under the device with more voices: refreshes and
\* the user's choices.
InitCatalog == InitFrom(CatalogLists)

NextCatalog ==
    \/ VoicesChangedCatalog
    \/ Select

SpecCatalog == InitCatalog /\ [][NextCatalog]_vars

\* The word-index computation on its own: one utterance of a text is being
\* spoken (the text was loaded, play was pressed), the device reports
\* boundaries at any offsets further on, the page handles them.
BoundaryChars == {"a", " ", "\n"}

HelloBraveWorld ==
    <<"H", "e", "l", "l", "o", " ", "b", "r", "a", "v", "e", " ",
      "w", "o", "r", "l", "d">>

BoundaryTexts ==
    (UNION {[1..n -> BoundaryChars] : n \in 1..MaxBoundaryLen})
        \cup {HelloBraveWorld}

InitBoundary ==
    /\ backendVoices = StartupVoices
    /\ voices = FilterVoices(backendVoices)
    /\ selectedVoice = DefaultVoice(voices)
    /\ userChoice = NoVoice
    /\ extractedText \in BoundaryTexts
    /\ isSpeaking = TRUE
    /\ isPaused = FALSE
    /\ utteranceRef = 1
    /\ synthQueue = << Utterance(1) >>
    /\ currentWordIndex = -1
    /\ synthPaused = FALSE
    /\ tasks = <<>>
    /\ mounted = TRUE
    /\ listening = TRUE
    /\ isProcessing = FALSE
    /\ error = NoError
    /\ lastOp = "play"
    /\ lastReq = <<"cancel", "speak">>

NextBoundary ==
    \/ SynthBoundary
    \/ DeliverBoundary

SpecBoundary == InitBoundary /\ [][NextBoundary]_vars

TypeOK ==
    /\ voices \in VoiceLists
    /\ selectedVoice \in RawVoices \cup {NoVoice}
    /\ isSpeaking \in BOOLEAN /\ isPaused \in BOOLEAN
    /\ utteranceRef \in Handles \cup {Null}
    /\ extractedText \in Texts
    /\ currentWordIndex \in -1..MaxLen
    /\ backendVoices \in VoiceLists
    /\ synthPaused \in BOOLEAN
    /\ mounted \in BOOLEAN /\ listening \in BOOLEAN
    /\ isProcessing \in BOOLEAN
    /\ error \in DecodeFailures \cup {NoError}

\* ------------------------------------------------------------- claims
Requests(kind) == Cardinality({i \in 1..Len(lastReq) : lastReq[i] = kind})

\* The head of `tasks' is an event of an utterance other than the one the
\* controller holds: cancelled by stop or by a load, or replaced by play.
StaleHead == tasks # <<>> /\ Head(tasks).h # utteranceRef

\* The utterance the controller holds is in the device's queue.
CurrentIsQueued ==
    /\ utteranceRef # Null
    /\ \E i \in 1..Len(synthQueue) : synthQueue[i].h = utteranceRef

\* The utterance the controller holds has not reached a boundary yet.
NoBoundaryYet ==
    /\ utteranceRef # Null
    /\ \E i \in 1..Len(synthQueue) :
          synthQueue[i].h = utteranceRef /\ synthQueue[i].pos = -1

\* C1: a boundary event of a stale utterance (cancelled by stop or by a
\* load, or replaced by a newer play) leaves currentWordIndex unchanged.
C1_StaleBoundaryIgnored ==
    [][(DeliverBoundary /\ StaleHead)
          => currentWordIndex' = currentWordIndex]_vars

\* C2: an end or error event of a cancelled or replaced utterance that is
\* delivered after a newer utterance has been started changes neither
\* playState nor currentWordIndex.
C2_StaleTerminalIgnored ==
    [][((DeliverEnd \/ DeliverError) /\ StaleHead /\ CurrentIsQueued
           /\ playState \in {"Speaking", "Paused"})
          => /\ playState' = playState
             /\ currentWordIndex' = currentWordIndex]_vars

\* C3: a refresh of the catalog leaves a voice the user chose selected, as
\* long as that voice is in the refreshed list.
C3_RefreshKeepsUserChoice ==
    [][(VoicesChanged /\ userChoice # NoVoice /\ selectedVoice = userChoice
           /\ userChoice \in Range(voices'))
          => selectedVoice' = userChoice]_vars

\* C4: stop, from Idle, Speaking or Paused, gives playState = Idle and
\* currentWordIndex = -1, and makes exactly one cancel request (and no
\* other request) to the device.
C4_StopResets ==
    [][lastOp' = "stop"
          => /\ playState' = "Idle"
             /\ currentWordIndex' = -1
             /\ lastReq' = <<"cancel">>
             /\ synthQueue' = <<>>]_vars

\* stop has run while the device was paused and held an utterance.
C4_Witness ==
    /\ lastOp = "stop"
    /\ Requests("cancel") = 1
    /\ synthPaused
    /\ \E i \in 1..Len(tasks) : tasks[i].type \in TerminalKinds
    /\ playState = "Idle"
    /\ currentWordIndex = -1

\* C5: whenever playState = Idle, currentWordIndex = -1.
C5_IdleHasNoCursor == playState = "Idle" => currentWordIndex = -1

\* C6: a play that starts a new utterance ends in Speaking with
\* currentWordIndex = -1, and currentWordIndex is -1 for as long as that
\* utterance has not reached its first boundary.
C6_NewUtteranceStartsClean ==
    [][/\ (lastOp' = "play" /\ Requests("speak")' = 1)
             => (playState' = "Speaking" /\ currentWordIndex' = -1)
       /\ NoBoundaryYet' => currentWordIndex' = -1]_vars

\* C7: the device never holds more than one utterance.
C7_AtMostOneUtterance == Len(synthQueue) <= 1

\* play has replaced an utterance that was still in the device's queue: the
\* cancelled one's terminal event is in flight, the new one is queued.
C7_Witness ==
    /\ lastOp = "play"
    /\ lastReq = <<"cancel", "speak">>
    /\ Len(synthQueue) = 1
    /\ synthQueue[1].h = utteranceRef
    /\ \E i \in 1..Len(tasks) :
          tasks[i].h # utteranceRef /\ tasks[i].type \in TerminalKinds

\* C8: play in the Paused state resumes the utterance the controller
\* holds: one resume request, no speak and no cancel, the same handle and
\* the same queue, and the state is Speaking.
C8_PlayResumes ==
    [][(lastOp' = "play" /\ playState = "Paused")
          => /\ lastReq' = <<"resume">>
             /\ utteranceRef # Null
             /\ utteranceRef' = utteranceRef
             /\ synthQueue' = synthQueue
             /\ playState' = "Speaking"]_vars

\* play has resumed a paused utterance that is still in the device's queue.
C8_Witness ==
    /\ lastOp = "play"
    /\ lastReq = <<"resume">>
    /\ playState = "Speaking"
    /\ CurrentIsQueued
    /\ ~synthPaused

\* C9: play with a non-empty text, an empty catalog and no selected voice
\* makes a speak request and ends in Speaking.
C9_PlayWithoutVoices ==
    [][(lastOp' = "play" /\ extractedText # <<>> /\ voices = <<>>
           /\ selectedVoice = NoVoice)
          => (Requests("speak")' = 1 /\ playState' = "Speaking")]_vars

\* C10: an error event of the utterance being spoken ends it like a
\* natural end: playState = Idle, currentWordIndex = -1, and no request is
\* made to the device.
C10_ErrorIsTerminal ==
    [][(DeliverError /\ ~StaleHead /\ playState = "Speaking")
          => /\ playState' = "Idle"
             /\ currentWordIndex' = -1
             /\ lastReq' = <<>>]_vars

\* The number of pieces split(/\s+/) gives for the first c characters of a
\* text: one more than the number of maximal whitespace runs in them.
PiecesBefore(text, c) ==
    1 + Cardinality({i \in 1..c :
                        /\ IsSpace(text[i])
                        /\ (i = 1 \/ ~IsSpace(text[i - 1]))})

\* C11: a boundary event at character offset c sets currentWordIndex to
\* the number of pieces of the first c characters of the text, split on
\* whitespace runs, minus one, for every text and every 0 <= c <= length;
\* for "Hello brave world" and c = 6 it is 1.
C11_BoundaryWordIndex ==
    [][DeliverBoundary
          => /\ Head(tasks).charIndex \in 0..Len(extractedText)
             /\ currentWordIndex'
                   = PiecesBefore(extractedText, Head(tasks).charIndex) - 1
             /\ (extractedText = HelloBraveWorld
                    /\ Head(tasks).charIndex = 6)
                   => currentWordIndex' = 1]_vars

\* The boundary at offset 6 of "Hello brave world" has been handled.
C11_Witness ==
    /\ lastOp = "boundary"
    /\ extractedText = HelloBraveWorld
    /\ synthQueue # <<>>
    /\ synthQueue[1].pos = 6
    /\ tasks = <<>>
    /\ currentWordIndex = 1

\* C12: within one utterance currentWordIndex does not decrease from one
\* boundary event to a later one (the offsets reported do not decrease),
\* and every terminal transition (the utterance's end, its error, stop)
\* resets it to -1.
C12_MonotoneThenReset ==
    [][/\ DeliverBoundary
             => \A c \in 0..Head(tasks).charIndex :
                   WordIndexAt(Head(tasks).text, c) <= currentWordIndex'
       /\ (((DeliverEnd \/ DeliverError) /\ ~StaleHead) \/ Stop)
             => currentWordIndex' = -1]_vars

\* C13: a load cancels the utterance in flight and leaves the state Idle
\* with currentWordIndex = -1, and after it currentWordIndex never takes a
\* value computed for the text that was replaced.
C13_LoadStopsPriorSession ==
    [][/\ LoadFile
             => /\ Requests("cancel")' = 1
                /\ synthQueue' = <<>>
                /\ playState' = "Idle"
                /\ currentWordIndex' = -1
       /\ (DeliverBoundary /\ Head(tasks).text # extractedText)
             => currentWordIndex' = currentWordIndex]_vars

\* The device lists a voice with the URI of the selected voice.
Resolvable ==
    \E i \in 1..Len(backendVoices) : backendVoices[i].uri = selectedVoice.uri

\* C14: play with a text and a selected voice that the device's current
\* list does not resolve still makes the speak request, with no voice bound
\* to the utterance, and ends in Speaking.
C14_UnresolvedVoiceStillSpeaks ==
    [][(Play /\ ~(isPaused /\ utteranceRef # Null)
           /\ extractedText # <<>> /\ selectedVoice # NoVoice /\ ~Resolvable)
          => /\ lastReq' = <<"cancel", "speak">>
             /\ Len(synthQueue') = 1
             /\ synthQueue'[1].voice = 0
             /\ synthQueue'[1].text = extractedText
             /\ utteranceRef' = synthQueue'[1].h
             /\ playState' = "Speaking"]_vars

\* play has started an utterance while the device no longer listed the
\* selected voice.
C14_Witness ==
    /\ lastOp = "play"
    /\ lastReq = <<"cancel", "speak">>
    /\ selectedVoice # NoVoice
    /\ ~Resolvable
    /\ Len(synthQueue) = 1
    /\ synthQueue[1].voice = 0
    /\ synthQueue[1].h = utteranceRef
    /\ playState = "Speaking"

\* C15: pause in Idle or Paused makes no request to the device and leaves
\* playState, currentWordIndex and the utterance handle as they were;
\* pause in Speaking makes one pause request and ends in Paused.
C15_PauseOnlyWhenSpeaking ==
    [][Pause
          => IF playState = "Speaking"
             THEN /\ lastReq' = <<"pause">>
                  /\ playState' = "Paused"
                  /\ utteranceRef' = utteranceRef
                  /\ currentWordIndex' = currentWordIndex
             ELSE /\ lastReq' = <<>>
                  /\ playState' = playState
                  /\ utteranceRef' = utteranceRef
                  /\ currentWordIndex' = currentWordIndex
                  /\ synthQueue' = synthQueue
                  /\ synthPaused' = synthPaused]_vars

\* pause has been pressed a second time, in Paused: nothing was requested
\* and the paused utterance is still held.
C15_Witness ==
    /\ lastOp = "pause"
    /\ lastReq = <<>>
    /\ playState = "Paused"
    /\ CurrentIsQueued
    /\ synthPaused

\* C16: a decode that fails (unsupported type, corrupt document, missing
\* decoder library) leaves the text, its words, playState, currentWordIndex
\* and the utterance as they were, makes no request to the device, and
\* sets the error message.
C16_FailedDecodeKeepsSession ==
    [][(DecodeFails \/ HandleFileRejected)
          => /\ extractedText' = extractedText
             /\ words' = words
             /\ playState' = playState
             /\ currentWordIndex' = currentWordIndex
             /\ utteranceRef' = utteranceRef
             /\ synthQueue' = synthQueue
             /\ lastReq' = <<>>
             /\ error' \in DecodeFailures
             /\ ~isProcessing']_vars

\* A decode has failed while an utterance was being spoken and a word was
\* highlighted.
C16_Witness ==
    /\ lastOp = "decodefail"
    /\ error = "corrupt"
    /\ playState = "Speaking"
    /\ CurrentIsQueued
    /\ currentWordIndex >= 0
    /\ extractedText # <<>>

\* C17: the teardown removes the voices-changed listener and cancels the
\* device whatever the state, so that after it no utterance is in the
\* device's queue and no voices-changed signal refreshes the catalog.
C17_TeardownReleases ==
    [][/\ Teardown
             => /\ ~listening'
                /\ lastReq' = <<"cancel">>
                /\ synthQueue' = <<>>
       /\ ~mounted
             => /\ ~mounted' /\ ~listening'
                /\ synthQueue' = <<>>
                /\ voices' = voices
                /\ selectedVoice' = selectedVoice]_vars

\* After a teardown that cancelled an utterance, the device's list has
\* changed and the catalog has not followed it.
C17_Witness ==
    /\ ~mounted
    /\ ~listening
    /\ lastOp = "teardown"
    /\ synthQueue = <<>>
    /\ \E i \in 1..Len(tasks) : tasks[i].h = utteranceRef
    /\ voices # FilterVoices(backendVoices)
    /\ voices # <<>>

\* The voice's name has the preferred engine's marker and its language is
\* the primary locale.
Marked(v) ==
    /\ \E k \in 1..Len(v.name) : v.name[k] = "Google"
    /\ v.lang # <<>> /\ v.lang[1] = "en"

\* C18: after a refresh that leaves a non-empty catalog a voice is
\* selected; if none was selected before, it is the first voice of the
\* catalog, in discovery order, with the preferred engine's marker and the
\* primary locale, or the first voice of the catalog if there is none.
C18_RefreshSetsDefault ==
    [][(VoicesChangedCatalog /\ voices' # <<>>)
          => /\ selectedVoice' # NoVoice
             /\ selectedVoice = NoVoice
                   => IF \E i \in 1..Len(voices') : Marked(voices'[i])
                      THEN \E i \in 1..Len(voices') :
                              /\ selectedVoice' = voices'[i]
                              /\ Marked(voices'[i])
                              /\ \A j \in 1..(i - 1) : ~Marked(voices'[j])
                      ELSE selectedVoice' = voices'[1]]_vars

\* A refresh has found two preferred voices and the first one is selected.
C18_Witness ==
    /\ lastOp = "voiceschanged"
    /\ userChoice = NoVoice
    /\ Len(voices) = 2
    /\ Marked(voices[1]) /\ Marked(voices[2])
    /\ selectedVoice = voices[1]

\* C19: whenever currentWordIndex is not -1 it is an index into the words
\* of the current text: 0 <= currentWordIndex < number of words.
C19_CursorWithinWords ==
    currentWordIndex # -1
        => (0 <= currentWordIndex /\ currentWordIndex < Len(words))

\* C20: the two flags are never both true, so the state is one of Idle,
\* Speaking and Paused, and in Paused the controller holds an utterance:
\* play in Paused takes the resume branch.
C20_FlagsExclusive ==
    /\ ~(isSpeaking /\ isPaused)
    /\ isPaused => (utteranceRef # Null /\ CanResume)

\* Paused, holding the utterance that the device has in its queue.
C20_Witness ==
    /\ isPaused
    /\ ~isSpeaking
    /\ lastOp = "pause"
    /\ synthPaused
    /\ CurrentIsQueued

=============================================================================
